---- MODULE Spec2Model ----
(***************************************************************************)
(* Model of src/main.py: the Streamlit hotel question-answering script.    *)
(* One process executes main() once per operator interaction (a script     *)
(* run).  A run reads seven environment variables, connects to the         *)
(* Couchbase cluster, builds the RAG chain, collects a question and, when  *)
(* the question is non-empty, invokes the chain: embed the query, search   *)
(* the vector index, format the prompt, call the chat model.  External     *)
(* services answer or raise nondeterministically.                          *)
(***************************************************************************)
EXTENDS Naturals, Sequences, FiniteSets

\* Number of script runs (operator interactions) explored in one process.
MaxRuns == 3

VARIABLES
    environ,      \* os.environ restricted to the seven names: <<>> is unset, <<s>> is the string s
    pc,           \* position of the script run inside main()
    envIdx,       \* index (1..7) of the get_env_variable call main() is at
    config,       \* the values main() has read so far, in call order
    cluster,      \* main's local `cluster`
    chainBuilt,   \* main's local `rag_invoke` is bound
    question,     \* main's local `question`
    docs,         \* documents the retriever returned to the chain
    prompt,       \* prompt value formatted by the chain
    response,     \* main's local `response`
    exc,          \* the exception raised in this run (NoException when none)
    display,      \* Streamlit elements emitted by this run, in order
    logged,       \* log records emitted by this run, in order
    exitStatus,   \* <<>> while the process lives, <<n>> after sys.exit(n)
    calls,        \* external calls made by this run, in order
    runs,         \* number of runs of main() started in this process
    connectTotal, \* number of initialize_cluster invocations in this process
    sent,         \* every (question, docs, prompt) handed to the chat model in this process
    lastExc       \* the exception the previous run ended with

vars == <<environ, pc, envIdx, config, cluster, chainBuilt, question, docs,
          prompt, response, exc, display, logged, exitStatus, calls, runs,
          connectTotal, sent, lastExc>>

----------------------------------------------------------------------------
\* Values

None == <<>>
Some(s) == <<s>>

NoException == "NoException"
NoCluster == "NoCluster"
NoResponse == "NoResponse"

\* The seven names, in the order main() reads them.
VarOrder ==
    << "COUCHBASE_CONNECTION_STRING", "COUCHBASE_USERNAME", "COUCHBASE_PASSWORD",
       "COUCHBASE_BUCKET", "COUCHBASE_SCOPE", "COUCHBASE_COLLECTION",
       "COUCHBASE_SEARCH_INDEX" >>

VarNames == { VarOrder[i] : i \in 1..Len(VarOrder) }

\* Values an environment variable may hold when set.
EnvValues == { "", "value" }

\* Environments explored: every variable unset, empty or set, with at most
\* two variables that are not set to a proper value.
Environments ==
    { e \in [VarNames -> {None} \cup { Some(s) : s \in EnvValues }] :
        Cardinality({ v \in VarNames : e[v] # Some("value") }) <= 2 }

\* Errors of couchbase.exceptions.CouchbaseException (the timeout of
\* wait_until_ready is a subclass).
CouchbaseExceptions == { "CouchbaseException", "UnAmbiguousTimeoutException" }
\* What Cluster(...) / wait_until_ready may raise.
ConnectErrors == CouchbaseExceptions \cup { "RuntimeError" }
BuildErrors == { "ValueError" }
EmbedErrors == { "EmbeddingError" }
SearchErrors == { "SearchError" }
CompletionErrors == { "CompletionError" }
InvokeErrors == EmbedErrors \cup SearchErrors \cup CompletionErrors

\* What the operator may have typed in the text input.
Questions == { "", "Which hotel has a pool?", "{context}" }
Snippets == { "Great ocean view", "Friendly staff" }
\* Result lists the store may return, in its own ranking order.
DocLists ==
    { <<>>, <<"Great ocean view">>,
      <<"Great ocean view", "Friendly staff">>,
      <<"Friendly staff", "Great ocean view">> }
Answers == { "Try the Grand Hotel." }

Contains(seq, x) == \E i \in 1..Len(seq) : seq[i] = x
Count(seq, x) == Cardinality({ i \in 1..Len(seq) : seq[i] = x })

Elem(kind, text, arg) == [kind |-> kind, text |-> text, arg |-> arg]
LogRec(level, text, arg) == [level |-> level, text |-> text, arg |-> arg]

----------------------------------------------------------------------------
\* Prompt formatting

Instruction ==
    "You are a helpful bot. If you cannot answer based on the context provided, respond with a generic answer. Answer the question as truthfully as possible using the context below:\n\n"
QuestionHeader == "\n\nQuestion: "

TemplateQuestionFirst ==
    << Instruction, QuestionHeader, "{question}", "{context}" >>

\* The template string, cut at its placeholders.
Template == << Instruction, "{context}", QuestionHeader, "{question}" >>

RECURSIVE RenderDocs(_)
\* The text of a list of documents as string formatting renders it: the
\* list's brackets around the comma-separated documents.
RenderDocs(ds) ==
    IF ds = <<>> THEN <<>>
    ELSE << "Document(page_content=", Head(ds), ")" >>
         \o (IF Len(ds) > 1 THEN << ", " >> ELSE <<>>)
         \o RenderDocs(Tail(ds))

RenderContext(ds) == << "[" >> \o RenderDocs(ds) \o << "]" >>

RECURSIVE Substitute(_, _, _)
\* One pass over the template: a placeholder is replaced by its value, and
\* the value is not scanned again.
Substitute(tpl, ctx, q) ==
    IF tpl = <<>> THEN <<>>
    ELSE (CASE Head(tpl) = "{context}" -> RenderContext(ctx)
            [] Head(tpl) = "{question}" -> << q >>
            [] OTHER -> << Head(tpl) >>)
         \o Substitute(Tail(tpl), ctx, q)

\* The prompt with a note about the conversation so far appended.
AssemblePromptWithHistory(ctx, q) ==
    Substitute(Template, ctx, q)
        \o (IF sent # {} THEN << "Earlier questions were asked." >> ELSE <<>>)

\* prompt.invoke({"context": <retriever output>, "question": <input>})
AssemblePrompt(ctx, q) == Substitute(Template, ctx, q)

QuestionGivenAlways(q) == TRUE

\* `if question:`
QuestionGiven(q) == q # ""

MissingMessageGeneric(var) ==
    [text |-> "A required environment variable is missing.", arg |-> ""]

\* f"Required environment variable '{var_name}' is missing.": the fixed
\* text and the name it carries.
MissingMessage(var) ==
    [text |-> "Required environment variable is missing.", arg |-> var]

----------------------------------------------------------------------------
Init ==
    /\ environ \in Environments
    /\ pc = "idle"
    /\ envIdx = 1
    /\ config = <<>>
    /\ cluster = NoCluster
    /\ chainBuilt = FALSE
    /\ question = ""
    /\ docs = <<>>
    /\ prompt = <<>>
    /\ response = NoResponse
    /\ exc = NoException
    /\ display = <<>>
    /\ logged = <<>>
    /\ exitStatus = None
    /\ calls = <<>>
    /\ runs = 0
    /\ connectTotal = 0
    /\ sent = {}
    /\ lastExc = NoException

\* The script is (re)run: main() starts with fresh locals and a fresh page.
MainStart ==
    /\ pc = "idle"
    /\ exitStatus = None
    /\ runs < MaxRuns
    /\ runs' = runs + 1
    /\ lastExc' = exc
    /\ pc' = "env"
    /\ envIdx' = 1
    /\ config' = <<>>
    /\ cluster' = NoCluster
    /\ chainBuilt' = FALSE
    /\ question' = ""
    /\ docs' = <<>>
    /\ prompt' = <<>>
    /\ response' = NoResponse
    /\ exc' = NoException
    /\ display' = << Elem("title", "Hotel Recommendation System", ""),
                     Elem("write", "Ask a question about hotels and get recommendations based on context.", "") >>
    /\ logged' = <<>>
    /\ calls' = <<>>
    /\ UNCHANGED <<environ, exitStatus, connectTotal, sent>>

\* A missing variable is reported and the default False-y value returned.
GetEnvVariableNoExit ==
    /\ pc = "env"
    /\ LET var == VarOrder[envIdx]
           value == environ[var]
           m == MissingMessage(var)
       IN  /\ config' = Append(config, value)
           /\ IF value = None
              THEN /\ logged' = Append(logged, LogRec("ERROR", m.text, m.arg))
                   /\ display' = Append(display, Elem("error", m.text, m.arg))
              ELSE UNCHANGED <<logged, display>>
           /\ IF envIdx = Len(VarOrder)
              THEN pc' = "connect" /\ envIdx' = envIdx
              ELSE pc' = "env" /\ envIdx' = envIdx + 1
    /\ UNCHANGED <<environ, cluster, chainBuilt, question, docs, prompt, response,
                   exc, exitStatus, calls, runs, connectTotal, sent, lastExc>>

\* `if not value:` in place of `if value is None:`.
GetEnvVariableFalsy ==
    /\ pc = "env"
    /\ LET var == VarOrder[envIdx]
           value == environ[var]
           m == MissingMessage(var)
       IN  IF value = None \/ value = Some("")
           THEN /\ logged' = Append(logged, LogRec("ERROR", m.text, m.arg))
                /\ display' = Append(display, Elem("error", m.text, m.arg))
                /\ exitStatus' = Some(1)
                /\ pc' = "exited"
                /\ UNCHANGED <<config, envIdx>>
           ELSE /\ config' = Append(config, value)
                /\ IF envIdx = Len(VarOrder)
                   THEN pc' = "connect" /\ envIdx' = envIdx
                   ELSE pc' = "env" /\ envIdx' = envIdx + 1
                /\ UNCHANGED <<logged, display, exitStatus>>
    /\ UNCHANGED <<environ, cluster, chainBuilt, question, docs, prompt, response,
                   exc, calls, runs, connectTotal, sent, lastExc>>

\* One call get_env_variable(VarOrder[envIdx]) of main(): the value is
\* returned, or the error is logged and displayed and sys.exit(1) ends the
\* process (SystemExit is raised outside main's try block).
GetEnvVariable ==
    /\ pc = "env"
    /\ LET var == VarOrder[envIdx]
           value == environ[var]
           m == MissingMessage(var)
       IN  IF value = None
           THEN /\ logged' = Append(logged, LogRec("ERROR", m.text, m.arg))
                /\ display' = Append(display, Elem("error", m.text, m.arg))
                /\ exitStatus' = Some(1)
                /\ pc' = "exited"
                /\ UNCHANGED <<config, envIdx>>
           ELSE /\ config' = Append(config, value)
                /\ IF envIdx = Len(VarOrder)
                   THEN pc' = "connect" /\ envIdx' = envIdx
                   ELSE pc' = "env" /\ envIdx' = envIdx + 1
                /\ UNCHANGED <<logged, display, exitStatus>>
    /\ UNCHANGED <<environ, cluster, chainBuilt, question, docs, prompt, response,
                   exc, calls, runs, connectTotal, sent, lastExc>>

\* A failed connection is logged and None returned instead of re-raising.
InitializeClusterSwallow ==
    /\ pc = "connect"
    /\ calls' = Append(calls, "connect")
    /\ connectTotal' = connectTotal + 1
    /\ \/ /\ cluster' = "cluster"
          /\ logged' = Append(logged, LogRec("INFO", "Successfully connected to Couchbase cluster.", ""))
          /\ pc' = "build"
          /\ UNCHANGED exc
       \/ \E e \in ConnectErrors :
             /\ logged' = Append(logged, LogRec("ERROR", "Error connecting to Couchbase cluster", e))
             /\ pc' = "build"
             /\ UNCHANGED <<cluster, exc>>
    /\ UNCHANGED <<environ, envIdx, config, chainBuilt, question, docs, prompt,
                   response, display, exitStatus, runs, sent, lastExc>>

\* initialize_cluster(...) as called by main(): one Cluster(...) and one
\* wait_until_ready(5 s); success is logged and the handle returned, a
\* CouchbaseException is logged and re-raised, any other exception
\* propagates as it is.
InitializeCluster ==
    /\ pc = "connect"
    /\ calls' = Append(calls, "connect")
    /\ connectTotal' = connectTotal + 1
    /\ \/ /\ cluster' = "cluster"
          /\ logged' = Append(logged, LogRec("INFO", "Successfully connected to Couchbase cluster.", ""))
          /\ pc' = "build"
          /\ UNCHANGED exc
       \/ \E e \in ConnectErrors :
             /\ exc' = e
             /\ logged' = IF e \in CouchbaseExceptions
                           THEN Append(logged, LogRec("ERROR", "Error connecting to Couchbase cluster", e))
                           ELSE logged
             /\ pc' = "handler"
             /\ UNCHANGED cluster
    /\ UNCHANGED <<environ, envIdx, config, chainBuilt, question, docs, prompt,
                   response, display, exitStatus, runs, sent, lastExc>>

\* build_rag_chain(...): the embeddings client, the vector store, the
\* retriever, the prompt template and the chat model are constructed and
\* composed; a constructor may raise.
BuildRagChain ==
    /\ pc = "build"
    /\ calls' = Append(calls, "build")
    /\ \/ /\ chainBuilt' = TRUE
          /\ pc' = "input"
          /\ UNCHANGED exc
       \/ \E e \in BuildErrors :
             /\ exc' = e
             /\ pc' = "handler"
             /\ UNCHANGED chainBuilt
    /\ UNCHANGED <<environ, envIdx, config, cluster, question, docs, prompt,
                   response, display, logged, exitStatus, runs, connectTotal,
                   sent, lastExc>>

\* st.text_input(...) and `if question:`: the widget is shown and returns
\* what the operator typed; an empty question ends the run.
TextInput ==
    /\ pc = "input"
    /\ \E q \in Questions :
         /\ question' = q
         /\ display' = Append(display, Elem("text_input", "Enter your question about hotels:", q))
         /\ pc' = IF QuestionGiven(q) THEN "embed" ELSE "idle"
    /\ UNCHANGED <<environ, envIdx, config, cluster, chainBuilt, docs, prompt,
                   response, exc, logged, exitStatus, calls, runs, connectTotal,
                   sent, lastExc>>

\* A failed embedding request is issued a second time.
EmbedQueryRetry ==
    /\ pc = "embed"
    /\ \/ /\ calls' = Append(calls, "embed")
          /\ pc' = "search"
          /\ UNCHANGED exc
       \/ /\ calls' = calls \o << "embed", "embed" >>
          /\ \/ /\ pc' = "search"
                /\ UNCHANGED exc
             \/ \E e \in EmbedErrors :
                   /\ exc' = e
                   /\ pc' = "handler"
    /\ UNCHANGED <<environ, envIdx, config, cluster, chainBuilt, question, docs,
                   prompt, response, display, logged, exitStatus, runs,
                   connectTotal, sent, lastExc>>

\* chain.invoke(question), first step: the retriever embeds the query text
\* (one request to the embedding service).
EmbedQuery ==
    /\ pc = "embed"
    /\ calls' = Append(calls, "embed")
    /\ \/ /\ pc' = "search"
          /\ UNCHANGED exc
       \/ \E e \in EmbedErrors :
             /\ exc' = e
             /\ pc' = "handler"
    /\ UNCHANGED <<environ, envIdx, config, cluster, chainBuilt, question,
                   docs, prompt, response, display, logged, exitStatus, runs,
                   connectTotal, sent, lastExc>>

\* The retriever's similarity search: the store returns its ranked
\* documents, which become the chain's "context".
SimilaritySearch ==
    /\ pc = "search"
    /\ calls' = Append(calls, "search")
    /\ \/ \E ds \in DocLists :
             /\ docs' = ds
             /\ pc' = "prompt"
             /\ UNCHANGED exc
       \/ \E e \in SearchErrors :
             /\ exc' = e
             /\ pc' = "handler"
             /\ UNCHANGED docs
    /\ UNCHANGED <<environ, envIdx, config, cluster, chainBuilt, question,
                   prompt, response, display, logged, exitStatus, runs,
                   connectTotal, sent, lastExc>>

\* `| prompt`: the template is formatted with the context and the question.
FormatPrompt ==
    /\ pc = "prompt"
    /\ calls' = Append(calls, "prompt")
    /\ prompt' = AssemblePrompt(docs, question)
    /\ pc' = "llm"
    /\ UNCHANGED <<environ, envIdx, config, cluster, chainBuilt, question,
                   docs, response, exc, display, logged, exitStatus, runs,
                   connectTotal, sent, lastExc>>

\* `| llm | StrOutputParser()`: the prompt is sent to the chat model; the
\* whole answer is returned as a string, or the call raises and nothing is
\* returned.
Complete ==
    /\ pc = "llm"
    /\ calls' = Append(calls, "llm")
    /\ sent' = sent \cup { [question |-> question, docs |-> docs, prompt |-> prompt] }
    /\ \/ \E a \in Answers :
             /\ response' = a
             /\ pc' = "show"
             /\ UNCHANGED exc
       \/ \E e \in CompletionErrors :
             /\ exc' = e
             /\ pc' = "handler"
             /\ UNCHANGED response
    /\ UNCHANGED <<environ, envIdx, config, cluster, chainBuilt, question,
                   docs, prompt, display, logged, exitStatus, runs,
                   connectTotal, lastExc>>

\* After rag_invoke returned: the response is written and success logged.
ShowResponse ==
    /\ pc = "show"
    /\ display' = display \o << Elem("write", "Response:", ""),
                                Elem("write", "answer", response) >>
    /\ logged' = Append(logged, LogRec("INFO", "Query processed successfully.", ""))
    /\ pc' = "idle"
    /\ UNCHANGED <<environ, envIdx, config, cluster, chainBuilt, question,
                   docs, prompt, response, exc, exitStatus, calls, runs,
                   connectTotal, sent, lastExc>>

\* The exception is not caught: the traceback is printed and the process
\* ends.
TopLevelHandlerExits ==
    /\ pc = "handler"
    /\ logged' = Append(logged, LogRec("ERROR", "Exception occurred", exc))
    /\ exitStatus' = Some(1)
    /\ pc' = "exited"
    /\ UNCHANGED <<environ, envIdx, config, cluster, chainBuilt, question,
                   docs, prompt, response, exc, display, calls, runs,
                   connectTotal, sent, lastExc>>

\* `except Exception as e:` of main(): a generic error and the traceback
\* are displayed, the exception is logged, and main() returns.
TopLevelHandler ==
    /\ pc = "handler"
    /\ display' = display \o << Elem("error", "An error occurred while processing your request.", ""),
                                Elem("error", "traceback", exc) >>
    /\ logged' = Append(logged, LogRec("ERROR", "Exception occurred", exc))
    /\ pc' = "idle"
    /\ UNCHANGED <<environ, envIdx, config, cluster, chainBuilt, question,
                   docs, prompt, response, exc, exitStatus, calls, runs,
                   connectTotal, sent, lastExc>>

Next ==
    \/ MainStart
    \/ GetEnvVariable
    \/ InitializeCluster
    \/ BuildRagChain
    \/ TextInput
    \/ EmbedQuery
    \/ SimilaritySearch
    \/ FormatPrompt
    \/ Complete
    \/ ShowResponse
    \/ TopLevelHandler

Spec == Init /\ [][Next]_vars

----------------------------------------------------------------------------
\* Observations used by the properties

IsPipelineCall(c) == c \in { "embed", "search", "prompt", "llm" }
PipelineCalls == SelectSeq(calls, IsPipelineCall)
PipelineOrder == << "embed", "search", "prompt", "llm" >>
IsPrefix(a, b) == Len(a) <= Len(b) /\ SubSeq(b, 1, Len(a)) = a

HasElem(kind, text) ==
    \E i \in 1..Len(display) : display[i].kind = kind /\ display[i].text = text
HasKind(kind) == \E i \in 1..Len(display) : display[i].kind = kind
ResponseShown == HasElem("write", "Response:") \/ HasElem("write", "answer")
GenericError == Elem("error", "An error occurred while processing your request.", "")
AnyUnset == \E v \in VarNames : environ[v] = None
IsSnippet(t) == t \in Snippets
IsTemplateText(t) == t \in { Instruction, QuestionHeader }

\* p is the instruction, a context block holding exactly the snippets ds in
\* order, the question header and the question q as typed.
WellFormedPrompt(p, ds, q) ==
    LET n == Len(p)
    IN  /\ n >= 3
        /\ p[1] = Instruction
        /\ p[n - 1] = QuestionHeader
        /\ p[n] = q
        /\ SelectSeq(SubSeq(p, 2, n - 2), IsSnippet) = ds
        /\ SelectSeq(SubSeq(p, 2, n - 2), IsTemplateText) = <<>>

----------------------------------------------------------------------------
\* C1: if any of the seven required variables is unset, no run ever gets
\* past the get_env_variable call for that variable: initialize_cluster,
\* build_rag_chain, embedding, search and completion are never invoked, and
\* the run that reads it ends in process exit.
C1_FailFastBeforeConnect ==
    /\ AnyUnset =>
          /\ calls = <<>>
          /\ connectTotal = 0
          /\ sent = {}
          /\ pc \in { "idle", "env", "exited" }
          /\ pc = "idle" => runs = 0
    /\ \A i \in 1..Len(VarOrder) :
          (environ[VarOrder[i]] = None /\ pc = "env") => envIdx <= i

\* The last variable read is the unset one: six values were read, the run
\* ended, nothing was called.
C1_Witness ==
    /\ pc = "exited"
    /\ environ["COUCHBASE_SEARCH_INDEX"] = None
    /\ Len(config) = 6
    /\ calls = <<>>

\* C2: when the chain invocation for a non-empty question raises, the run
\* shows neither "Response:" nor an answer, the top-level handler displays
\* the generic error and the traceback and logs the exception, and the
\* process is still alive with the next run of main() enabled.
C2_InvokeErrorHandled ==
    exc \in InvokeErrors =>
        /\ question # ""
        /\ ~ResponseShown
        /\ response = NoResponse
        /\ exitStatus = None
        /\ pc \in { "handler", "idle" }
        /\ pc = "idle" =>
              /\ SubSeq(display, Len(display) - 1, Len(display))
                    = << GenericError, Elem("error", "traceback", exc) >>
              /\ logged # <<>>
              /\ logged[Len(logged)] = LogRec("ERROR", "Exception occurred", exc)
              /\ runs < MaxRuns => ENABLED MainStart

\* The run after a failed completion call displays an answer.
C2_Witness ==
    /\ lastExc = "CompletionError"
    /\ pc = "idle"
    /\ HasElem("write", "Response:")
    /\ HasElem("write", "answer")

\* C3: when connecting fails (no handle obtained), exactly one connection
\* attempt was made, the error raised reaches the top-level handler as it
\* was raised and is displayed, and in that run the chain is not built, no
\* question is collected and no query is processed.
C3_ConnectFailureSurfaced ==
    (Contains(calls, "connect") /\ cluster = NoCluster) =>
        /\ exc \in ConnectErrors
        /\ Count(calls, "connect") = 1
        /\ calls = << "connect" >>
        /\ ~chainBuilt
        /\ ~HasKind("text_input")
        /\ ~ResponseShown
        /\ pc \in { "handler", "idle" }
        /\ \A i \in 1..Len(logged) :
              logged[i].text = "Error connecting to Couchbase cluster"
                  => logged[i].arg = exc
        /\ pc = "idle" =>
              /\ SubSeq(display, Len(display) - 1, Len(display))
                    = << GenericError, Elem("error", "traceback", exc) >>
              /\ logged[Len(logged)] = LogRec("ERROR", "Exception occurred", exc)

\* The readiness wait timed out and the handler has displayed the timeout.
C3_Witness ==
    /\ pc = "idle"
    /\ exc = "UnAmbiguousTimeoutException"
    /\ calls = << "connect" >>
    /\ Contains(display, Elem("error", "traceback", "UnAmbiguousTimeoutException"))

ConstructionReached == pc \in { "connect", "build" } \/ Contains(calls, "connect")

\* C4 as claimed: whenever pipeline construction is reached every required
\* value is present and non-empty (an empty value being fatal like an unset
\* one).
C4_PresentAndNonEmpty ==
    ConstructionReached =>
        \A v \in VarNames : environ[v] # None /\ environ[v] # Some("")

\* C4 as amended: whenever pipeline construction is reached every required
\* variable is set and main() holds its value, which may be the empty string;
\* the configuration error exit happens only for an unset variable.
C4_PresentPossiblyEmpty ==
    /\ ConstructionReached =>
          /\ Len(config) = Len(VarOrder)
          /\ \A i \in 1..Len(VarOrder) :
                config[i] # None /\ config[i] = environ[VarOrder[i]]
    /\ exitStatus # None => environ[VarOrder[envIdx]] = None

\* The connection is about to be attempted with an empty required value.
C4_Witness ==
    /\ pc = "connect"
    /\ \E i \in 1..Len(config) : config[i] = Some("")

\* C5: a missing required variable ends the process with status 1 after an
\* error naming that variable was logged and displayed; the top-level
\* handler does not see the exit (no generic error is shown), and no run
\* continues past an unset variable.
C5_MissingVariableExit ==
    /\ exitStatus # None =>
          LET var == VarOrder[envIdx]
          IN  /\ exitStatus = Some(1)
              /\ pc = "exited"
              /\ environ[var] = None
              /\ display[Len(display)]
                    = Elem("error", "Required environment variable is missing.", var)
              /\ logged[Len(logged)]
                    = LogRec("ERROR", "Required environment variable is missing.", var)
              /\ ~Contains(display, GenericError)
              /\ exc = NoException
    /\ pc = "env" => \A i \in 1..(envIdx - 1) : environ[VarOrder[i]] # None
    /\ (runs > 0 /\ pc \notin { "env", "exited" }) => ~AnyUnset

\* COUCHBASE_BUCKET, the fourth variable read, is unset and the process has
\* exited.
C5_Witness ==
    /\ exitStatus = Some(1)
    /\ environ["COUCHBASE_BUCKET"] = None
    /\ envIdx = 4
    /\ Len(config) = 3

\* C6 as claimed: across all runs of main() in one process,
\* initialize_cluster is invoked at most once.
C6_ConnectAtMostOnce == connectTotal <= 1

\* C7: within a run the pipeline calls are a prefix of embed, search,
\* prompt, completion (strict order, each at most once), and a failed step
\* is the last one started.
C7_PipelineOrder ==
    /\ IsPrefix(PipelineCalls, PipelineOrder)
    /\ exc \in EmbedErrors => PipelineCalls = << "embed" >>
    /\ exc \in SearchErrors => PipelineCalls = << "embed", "search" >>
    /\ exc \in CompletionErrors => PipelineCalls = PipelineOrder
    /\ exc \in InvokeErrors => pc \in { "handler", "idle" }
    /\ pc = "search" => PipelineCalls = << "embed" >>
    /\ pc = "prompt" => PipelineCalls = << "embed", "search" >>
    /\ pc = "llm" => PipelineCalls = << "embed", "search", "prompt" >>
    /\ pc = "show" => PipelineCalls = PipelineOrder

\* A search failure ended the pipeline after two steps.
C7_Witness ==
    /\ pc = "idle"
    /\ exc = "SearchError"
    /\ PipelineCalls = << "embed", "search" >>

C9_Stateless ==
    \A a \in sent : \A b \in sent :
        (a.question = b.question /\ a.docs = b.docs) => a.prompt = b.prompt

\* In the third run of the process the same question with the same results
\* was sent again, right after a run whose completion call failed.
C9_Witness ==
    /\ runs = 3
    /\ pc = "show"
    /\ lastExc = "CompletionError"
    /\ Cardinality(sent) = 1

\* C10: a run whose question is empty makes no embedding, search or
\* completion call and displays neither a response nor an error, having
\* connected to the store and built the chain.
C10_EmptyQuestion ==
    (HasKind("text_input") /\ question = "") =>
        /\ pc = "idle"
        /\ calls = << "connect", "build" >>
        /\ cluster # NoCluster
        /\ chainBuilt
        /\ ~ResponseShown
        /\ ~HasKind("error")
        /\ exc = NoException
        /\ prompt = <<>>

\* The second run of the process ended on an empty question.
C10_Witness ==
    /\ runs = 2
    /\ pc = "idle"
    /\ HasKind("text_input")
    /\ question = ""
    /\ calls = << "connect", "build" >>

====
